---- MODULE Spec2Model ----
(***************************************************************************)
(* FormBuddy icon generators: scripts/generate_icons.py (procedural),      *)
(* scripts/generate_icons_from_file.py (file-based) and                    *)
(* scripts/generate_icons_from_url.py (URL-based).                         *)
(*                                                                         *)
(* The state is the icons/ output directory and the position of the one    *)
(* generator run in progress.  A behaviour is a sequence of runs, each of  *)
(* one of the three scripts, each advancing one statement group at a time, *)
(* so that the directory can be observed between two writes of a run.      *)
(*                                                                         *)
(* Images are modelled by what the pipeline does to them: the source they  *)
(* were decoded from, the region of the source they show, their pixel      *)
(* dimensions, the resampling applied and the alpha channel they carry.    *)
(* The Pillow and requests calls are modelled by their documented          *)
(* behaviour; every such place says so.                                    *)
(***************************************************************************)
EXTENDS Integers, Sequences, FiniteSets

VARIABLES
    fs,         \* icons/ : file name -> [exists, data]; data is the sequence of images the file holds
    dirExists,  \* whether OUT_DIR exists
    gen,        \* script of the current (or last) run: "none", "proc", "file", "url"
    pc,         \* position of the run
    input,      \* what the run was started with (argv, source file, HTTP response)
    src,        \* the local `src` / `base` image of main()
    idx,        \* 1-based index of the loop iteration about to run
    written,    \* names of the files written by the run so far, in order
    failed,     \* name of the file whose write raised, "" when none did
    startFs,    \* fs when the run started
    startDir,   \* dirExists when the run started
    exit,       \* exit status of the process, -1 while it runs
    msg,        \* what the process printed on exit: "", "usage", "notfound", "traceback", "wrote"
    trace,      \* image-processing steps performed by the run, in order
    prev,       \* summary of the run before the current one
    runs,       \* number of runs started
    probe       \* input and result of a pure function under test (SpecCrop, SpecMask)

vars == <<fs, dirExists, gen, pc, input, src, idx, written, failed, startFs,
          startDir, exit, msg, trace, prev, runs, probe>>

(*************************** bounds ****************************************)
\* Source images are W x H with W, H in 1..MaxDim in the runs.
MaxDim == 2
\* Number of runs in one behaviour.
MaxRuns == 2
\* center_crop_square is applied to every W x H with W, H in 1..MaxSide.
MaxSide == 8
\* Mask pixels are probed in the bands of width radius + 1 + ProbeMargin along
\* each edge, and at the centre.
ProbeMargin == 1

Min(a, b) == IF a <= b THEN a ELSE b
Max(a, b) == IF a >= b THEN a ELSE b

(*************************** images ****************************************)
\* No alpha mask applied: the image carries its own alpha channel.
NoMask == [size |-> 0, box |-> <<0, 0, 0, 0>>, radius |-> 0, bg |-> 0, fill |-> 0]

NoImg == [art |-> "none", sw |-> 0, sh |-> 0, mode |-> "none", l |-> 0, t |-> 0,
          w |-> 0, h |-> 0, rs |-> "none", alpha |-> NoMask]

\* Image.open on a decodable source of W x H pixels.
ImageOpen(W, H) ==
    [art |-> "photo", sw |-> W, sh |-> H, mode |-> "src", l |-> 0, t |-> 0,
     w |-> W, h |-> H, rs |-> "none", alpha |-> NoMask]

\* Image.convert("RGBA")
convert(img) == [img EXCEPT !.mode = "RGBA"]

\* Image.crop((left, upper, right, lower)): the region, in the coordinates of img.
crop(img, box) ==
    [img EXCEPT !.l = img.l + box[1], !.t = img.t + box[2],
                !.w = box[3] - box[1], !.h = box[4] - box[2]]

\* Image.resize((size, size), resample=LANCZOS)
resize(img, size) == [img EXCEPT !.w = size, !.h = size, !.rs = "LANCZOS"]

\* Image.putalpha(mask): the mask replaces the alpha channel.
putalpha(img, mask) == [img EXCEPT !.alpha = mask]

\* ImageDraw.rounded_rectangle(box, radius, fill) on an "L" image filled with bg:
\* the values pixel (x, y) of the mask can hold.  Pillow fills the band
\* between the corners and, in each corner square, a pie slice of the circle
\* of radius r centred r pixels in from the two edges; an "L" mask is not
\* anti-aliased.  Every pixel whose centre is within r of the corner centre is
\* filled, none further than r + 1/2 from it is (d^2 > r^2 + r), and which of
\* the pixels in between are filled is the rasteriser's rounding: both values
\* are possible for them.  When 2r >= side - 1 Pillow joins the corners into
\* an ellipse, which this model leaves open the same way.
MaskAt(m, x, y) ==
    LET x0 == m.box[1]
        y0 == m.box[2]
        x1 == m.box[3]
        y1 == m.box[4]
        r  == m.radius
        cx == IF x < x0 + r THEN x0 + r ELSE IF x > x1 - r THEN x1 - r ELSE x
        cy == IF y < y0 + r THEN y0 + r ELSE IF y > y1 - r THEN y1 - r ELSE y
        d2 == (x - cx) * (x - cx) + (y - cy) * (y - cy)
    IN  IF x < 0 \/ y < 0 \/ x >= m.size \/ y >= m.size THEN {}
        ELSE IF x < x0 \/ x > x1 \/ y < y0 \/ y > y1 THEN {m.bg}
        ELSE IF r = 0 THEN {m.fill}
        ELSE IF 2 * r >= x1 - x0 - 1 \/ 2 * r >= y1 - y0 - 1 THEN {m.bg, m.fill}
        ELSE IF d2 <= r * r THEN {m.fill}
        ELSE IF d2 > r * r + r THEN {m.bg}
        ELSE {m.bg, m.fill}

\* The alpha channel of an image that putalpha gave a mask.
AlphaAt(img, x, y) == MaskAt(img.alpha, x, y)

(*************************** files *****************************************)
IconNames == {"icon512.png", "icon128.png", "icon48.png", "icon16.png"}
Names == IconNames \cup {"source.png", "other.png"}

Absent == [exists |-> FALSE, data |-> <<>>]
\* A file that exists and holds no complete image (0 bytes, or a truncated write).
EmptyFile == [exists |-> TRUE, data |-> <<>>]
\* A file that no generator writes, present before the first run.
OtherFile == [exists |-> TRUE, data |-> <<[NoImg EXCEPT !.art = "other"]>>]

\* Image.save(path, format="PNG", optimize=True): the file is opened for
\* writing (truncated) and holds the one image afterwards.  f is the file
\* before the call.
SaveAppend(f, img) == [exists |-> TRUE, data |-> Append(f.data, img)]
Save(f, img) == [exists |-> TRUE, data |-> <<img>>]

\* Path.write_bytes(b"")
write_bytes_empty(f) == EmptyFile


(*************************** generate_icons_from_file.py *******************)
SPECS_reordered ==
    << [size |-> 512, filename |-> "icon512.png"],
       [size |-> 48,  filename |-> "icon48.png"],
       [size |-> 128, filename |-> "icon128.png"],
       [size |-> 16,  filename |-> "icon16.png"] >>
SPECS == << [size |-> 512, filename |-> "icon512.png"],
            [size |-> 128, filename |-> "icon128.png"],
            [size |-> 48,  filename |-> "icon48.png"],
            [size |-> 16,  filename |-> "icon16.png"] >>

center_crop_square_nohalf(img) ==
    LET w == img.w
        h == img.h
        side == Min(w, h)
        left == w - side
        top == h - side
    IN  crop(img, <<left, top, left + side, top + side>>)
center_crop_square(img) ==
    LET w == img.w
        h == img.h
        side == Min(w, h)
        left == (w - side) \div 2
        top == (h - side) \div 2
    IN  crop(img, <<left, top, left + side, top + side>>)

\* Image.new("L", (size, size), 0), then
\* rounded_rectangle([0, 0, size - 1, size - 1], radius=radius, fill=255).
rounded_alpha_mask_filled(size, radius) ==
    [size |-> size, box |-> <<0, 0, size - 1, size - 1>>, radius |-> radius,
     bg |-> 255, fill |-> 255]
rounded_alpha_mask(size, radius) ==
    [size |-> size, box |-> <<0, 0, size - 1, size - 1>>, radius |-> radius,
     bg |-> 0, fill |-> 255]

\* r = max(2, int(size * 0.16)); int() truncates, and size * 0.16 >= 0.  The
\* float products of the four sizes (81.92, 20.48, 7.68, 2.56) are far from an
\* integer, so the integer quotient below is the value Python computes.
file_radius_rounded(size) == Max(2, (size * 16 + 50) \div 100)
file_radius(size) == Max(2, (size * 16) \div 100)

\* len(sys.argv) != 2 raises SystemExit(usage)
file_args_ok_atleast(argc) == argc >= 2
file_args_ok(argc) == argc = 2

\* One iteration of `for size, filename in SPECS`, up to the save.
file_icon(image, spec) ==
    putalpha(resize(image, spec.size),
             rounded_alpha_mask(spec.size, file_radius(spec.size)))

(*************************** generate_icons_from_url.py ********************)
url_SPECS_reordered ==
    << [size |-> 512, filename |-> "icon512.png"],
       [size |-> 48,  filename |-> "icon48.png"],
       [size |-> 128, filename |-> "icon128.png"],
       [size |-> 16,  filename |-> "icon16.png"] >>
url_SPECS == << [size |-> 512, filename |-> "icon512.png"],
                [size |-> 128, filename |-> "icon128.png"],
                [size |-> 48,  filename |-> "icon48.png"],
                [size |-> 16,  filename |-> "icon16.png"] >>

url_center_crop_square(img) ==
    LET w == img.w
        h == img.h
        side == Min(w, h)
        left == (w - side) \div 2
        top == (h - side) \div 2
    IN  crop(img, <<left, top, left + side, top + side>>)

url_rounded_alpha_mask(size, radius) ==
    [size |-> size, box |-> <<0, 0, size - 1, size - 1>>, radius |-> radius,
     bg |-> 0, fill |-> 255]

url_radius(size) == Max(2, (size * 16) \div 100)

\* Response.raise_for_status() of requests raises HTTPError exactly for the
\* client-error (400..499) and server-error (500..599) status codes.
raise_for_status_never(status) == FALSE
raise_for_status(status) == status >= 400 /\ status < 600

url_icon(image, spec) ==
    putalpha(resize(image, spec.size),
             url_rounded_alpha_mask(spec.size, url_radius(spec.size)))

(*************************** generate_icons.py *****************************)
\* make_base(size): a size x size RGBA raster, corners masked with radius
\* int(size * 0.16), then the document and the badge drawn over it.
make_base(size) ==
    [art |-> "drawn", sw |-> size, sh |-> size, mode |-> "RGBA", l |-> 0, t |-> 0,
     w |-> size, h |-> size, rs |-> "none",
     alpha |-> [size |-> size, box |-> <<0, 0, size - 1, size - 1>>,
                radius |-> (size * 16) \div 100, bg |-> 0, fill |-> 255]]

\* for target in (128, 48, 16)
proc_targets_short == <<128, 48>>
proc_targets == <<128, 48, 16>>

\* f"icon{target}.png"
proc_filename(target) ==
    CASE target = 512 -> "icon512.png"
      [] target = 128 -> "icon128.png"
      [] target = 48  -> "icon48.png"
      [] target = 16  -> "icon16.png"

\* base.resize((target, target), resample=LANCZOS)
proc_icon_unresized(base, target) == base
proc_icon(base, target) == resize(base, target)


(*************************** inputs ****************************************)
Dims == 1..MaxDim

\* Status codes a final response can carry: success, success without the
\* usual body, a 3xx that requests does not follow (no redirect target),
\* client error, server error.
HttpStatuses == {200, 204, 300, 404, 500}

NoInput == [argc |-> 1, exists |-> FALSE, decodable |-> FALSE, w |-> 0, h |-> 0,
            net |-> FALSE, status |-> 0]

\* sys.argv of the file-based script (argc = len(sys.argv)), whether argv[1]
\* exists, whether Pillow can decode it, and its size.
FileInputs ==
    {[NoInput EXCEPT !.argc = a] : a \in {1, 3}}
    \cup {[NoInput EXCEPT !.argc = 3, !.exists = TRUE, !.decodable = TRUE,
                          !.w = 1, !.h = 1]}
    \cup {[NoInput EXCEPT !.argc = 2, !.exists = e] : e \in BOOLEAN}
    \cup {[NoInput EXCEPT !.argc = 2, !.exists = TRUE, !.decodable = TRUE,
                          !.w = W, !.h = H] : W \in Dims, H \in Dims}

\* What requests.get returns: no response (connection error, timeout), or a
\* response with a status and a body that decodes to a W x H image or not.
UrlInputs ==
    {NoInput}
    \cup {[NoInput EXCEPT !.net = TRUE, !.status = st] : st \in HttpStatuses}
    \cup {[NoInput EXCEPT !.net = TRUE, !.status = st, !.decodable = TRUE,
                          !.w = W, !.h = H] :
            st \in HttpStatuses, W \in Dims, H \in Dims}

Step(op, n, f) == [op |-> op, n |-> n, f |-> f]

NoPrev == [ok |-> FALSE, gen |-> "none", w |-> 0, h |-> 0, trace |-> <<>>]

NoProbe == [fn |-> "none"]

\* The names written so far, name added unless it is the file written last.
Wrote(name) ==
    IF Len(written) > 0 /\ written[Len(written)] = name
    THEN written ELSE Append(written, name)

(*************************** runs ******************************************)
InitRun ==
    /\ gen = "none" /\ pc = "idle" /\ input = NoInput /\ src = NoImg /\ idx = 0
    /\ written = <<>> /\ failed = "" /\ exit = -1 /\ msg = ""
    /\ trace = <<>> /\ prev = NoPrev /\ runs = 0

\* The directory before the first run: missing, empty, or holding a file that
\* is none of the generators' outputs.
Init ==
    /\ InitRun
    /\ \E d \in BOOLEAN, o \in {Absent, OtherFile} :
          /\ (o.exists => d)
          /\ dirExists = d
          /\ fs = [n \in Names |-> IF n = "other.png" THEN o ELSE Absent]
    /\ startFs = fs
    /\ startDir = dirExists
    /\ probe = NoProbe

\* A script is started from the shell; the previous process has exited.  A
\* behaviour holds at most one run whose write failed: no run is started
\* after it.
Begin(g, inp, first) ==
    /\ pc \in {"idle", "exited"}
    /\ runs < MaxRuns
    /\ failed = ""
    /\ gen' = g
    /\ input' = inp
    /\ pc' = first
    /\ runs' = runs + 1
    /\ startFs' = fs
    /\ startDir' = dirExists
    /\ written' = <<>>
    /\ failed' = ""
    /\ exit' = -1
    /\ msg' = ""
    /\ trace' = <<>>
    /\ src' = NoImg
    /\ idx' = 0
    /\ prev' = IF pc = "exited" /\ exit = 0
               THEN [ok |-> TRUE, gen |-> gen, w |-> input.w, h |-> input.h,
                     trace |-> trace]
               ELSE NoPrev
    /\ UNCHANGED <<fs, dirExists, probe>>

\* The process ends with the status and the message given.
Exit(status, m) ==
    /\ pc' = "exited"
    /\ exit' = status
    /\ msg' = m

\* main() of generate_icons.py ------------------------------------------------
ProcStart == Begin("proc", NoInput, "proc_base")

\* OUT_DIR.mkdir(parents=True, exist_ok=True); base = make_base(512)
ProcBase ==
    /\ pc = "proc_base"
    /\ dirExists' = TRUE
    /\ src' = make_base(512)
    /\ pc' = "proc_touch"
    /\ UNCHANGED <<fs, gen, input, idx, written, failed, startFs, startDir,
                   exit, msg, trace, prev, runs, probe>>

\* (OUT_DIR / "icon512.png").write_bytes(b"")
ProcTouch ==
    /\ pc = "proc_touch"
    /\ fs' = [fs EXCEPT !["icon512.png"] = write_bytes_empty(@)]
    /\ written' = Wrote("icon512.png")
    /\ pc' = "proc_save"
    /\ UNCHANGED <<dirExists, gen, input, src, idx, failed, startFs, startDir,
                   exit, msg, trace, prev, runs, probe>>

\* base.save(OUT_DIR / "icon512.png", format="PNG", optimize=True)
ProcSave ==
    /\ pc = "proc_save"
    /\ fs' = [fs EXCEPT !["icon512.png"] = Save(@, src)]
    /\ written' = Wrote("icon512.png")
    /\ trace' = Append(trace, Step("save", 512, "icon512.png"))
    /\ idx' = 1
    /\ pc' = "proc_loop"
    /\ UNCHANGED <<dirExists, gen, input, src, failed, startFs, startDir,
                   exit, msg, prev, runs, probe>>

\* One iteration of `for target in (128, 48, 16)`.
ProcIcon ==
    /\ pc = "proc_loop"
    /\ idx <= Len(proc_targets)
    /\ LET target == proc_targets[idx]
           resized == proc_icon(src, target)
           name == proc_filename(target)
       IN  /\ fs' = [fs EXCEPT ![name] = Save(@, resized)]
           /\ written' = Wrote(name)
           /\ trace' = trace \o << Step("resize", target, ""),
                                   Step("save", target, name) >>
    /\ idx' = idx + 1
    /\ pc' = IF idx = Len(proc_targets) THEN "proc_print" ELSE "proc_loop"
    /\ UNCHANGED <<dirExists, gen, input, src, failed, startFs, startDir,
                   exit, msg, prev, runs, probe>>

\* print(f"Wrote icons to {OUT_DIR}")
ProcPrint ==
    /\ pc = "proc_print"
    /\ Exit(0, "wrote")
    /\ UNCHANGED <<fs, dirExists, gen, input, src, idx, written, failed,
                   startFs, startDir, trace, prev, runs, probe>>

\* main() of generate_icons_from_file.py --------------------------------------
FileStart == \E inp \in FileInputs : Begin("file", inp, "file_args")

\* if len(sys.argv) != 2: raise SystemExit("Usage: ...")
FileArgs ==
    /\ pc = "file_args"
    /\ IF file_args_ok(input.argc)
       THEN pc' = "file_path" /\ UNCHANGED <<exit, msg>>
       ELSE Exit(1, "usage")
    /\ UNCHANGED <<fs, dirExists, gen, input, src, idx, written, failed,
                   startFs, startDir, trace, prev, runs, probe>>

\* if not src_path.exists(): raise SystemExit("Source image not found: ...")
FilePath ==
    /\ pc = "file_path"
    /\ IF input.exists
       THEN pc' = "file_open" /\ UNCHANGED <<exit, msg>>
       ELSE Exit(1, "notfound")
    /\ UNCHANGED <<fs, dirExists, gen, input, src, idx, written, failed,
                   startFs, startDir, trace, prev, runs, probe>>

\* OUT_DIR.mkdir(...); src = Image.open(src_path).convert("RGBA");
\* src = center_crop_square(src).  Image.open raises on a file Pillow cannot
\* decode, and a file that argv[1] does not name cannot be opened.
FileOpen ==
    /\ pc = "file_open"
    /\ dirExists' = TRUE
    /\ IF input.exists /\ input.decodable
       THEN /\ src' = center_crop_square(convert(ImageOpen(input.w, input.h)))
            /\ trace' = trace \o << Step("convert", 0, "RGBA"), Step("crop", 0, "") >>
            /\ pc' = "file_source"
            /\ UNCHANGED <<exit, msg>>
       ELSE /\ Exit(1, "traceback")
            /\ UNCHANGED <<src, trace>>
    /\ UNCHANGED <<fs, gen, input, idx, written, failed, startFs, startDir,
                   prev, runs, probe>>

\* src.save(OUT_DIR / "source.png", format="PNG", optimize=True)
FileSource ==
    /\ pc = "file_source"
    /\ fs' = [fs EXCEPT !["source.png"] = Save(@, src)]
    /\ written' = Wrote("source.png")
    /\ trace' = Append(trace, Step("save", 0, "source.png"))
    /\ idx' = 1
    /\ pc' = "file_loop"
    /\ UNCHANGED <<dirExists, gen, input, src, failed, startFs, startDir,
                   exit, msg, prev, runs, probe>>

\* One iteration of `for size, filename in SPECS`.
FileIcon ==
    /\ pc = "file_loop"
    /\ idx <= Len(SPECS)
    /\ LET spec == SPECS[idx]
           img == file_icon(src, spec)
       IN  /\ fs' = [fs EXCEPT ![spec.filename] = Save(@, img)]
           /\ written' = Wrote(spec.filename)
           /\ trace' = trace \o << Step("resize", spec.size, ""),
                                   Step("mask", img.alpha.radius, ""),
                                   Step("save", spec.size, spec.filename) >>
    /\ idx' = idx + 1
    /\ pc' = IF idx = Len(SPECS) THEN "file_print" ELSE "file_loop"
    /\ UNCHANGED <<dirExists, gen, input, src, failed, startFs, startDir,
                   exit, msg, prev, runs, probe>>

\* print(f"Wrote icons to {OUT_DIR} (source saved at {out_source})")
FilePrint ==
    /\ pc = "file_print"
    /\ Exit(0, "wrote")
    /\ UNCHANGED <<fs, dirExists, gen, input, src, idx, written, failed,
                   startFs, startDir, trace, prev, runs, probe>>


\* main() of generate_icons_from_url.py ---------------------------------------
UrlStart == \E inp \in UrlInputs : Begin("url", inp, "url_fetch")

\* fetch_image(url) raises when requests.get raises (no response), when
\* raise_for_status raises, or when Image.open cannot decode r.content.
fetch_image_raises(inp) ==
    \/ ~inp.net
    \/ raise_for_status(inp.status)
    \/ ~inp.decodable

\* OUT_DIR.mkdir(...); src = fetch_image(url); src = center_crop_square(src)
UrlFetch ==
    /\ pc = "url_fetch"
    /\ dirExists' = TRUE
    /\ IF fetch_image_raises(input)
       THEN /\ Exit(1, "traceback")
            /\ UNCHANGED <<src, trace>>
       ELSE /\ src' = url_center_crop_square(convert(ImageOpen(input.w, input.h)))
            /\ trace' = trace \o << Step("convert", 0, "RGBA"), Step("crop", 0, "") >>
            /\ pc' = "url_source"
            /\ UNCHANGED <<exit, msg>>
    /\ UNCHANGED <<fs, gen, input, idx, written, failed, startFs, startDir,
                   prev, runs, probe>>

\* src.save(OUT_DIR / "source.png", format="PNG", optimize=True)
UrlSource ==
    /\ pc = "url_source"
    /\ fs' = [fs EXCEPT !["source.png"] = Save(@, src)]
    /\ written' = Wrote("source.png")
    /\ trace' = Append(trace, Step("save", 0, "source.png"))
    /\ idx' = 1
    /\ pc' = "url_loop"
    /\ UNCHANGED <<dirExists, gen, input, src, failed, startFs, startDir,
                   exit, msg, prev, runs, probe>>

\* One iteration of `for spec in SPECS`.
UrlIcon ==
    /\ pc = "url_loop"
    /\ idx <= Len(url_SPECS)
    /\ LET spec == url_SPECS[idx]
           img == url_icon(src, spec)
       IN  /\ fs' = [fs EXCEPT ![spec.filename] = Save(@, img)]
           /\ written' = Wrote(spec.filename)
           /\ trace' = trace \o << Step("resize", spec.size, ""),
                                   Step("mask", img.alpha.radius, ""),
                                   Step("save", spec.size, spec.filename) >>
    /\ idx' = idx + 1
    /\ pc' = IF idx = Len(url_SPECS) THEN "url_print" ELSE "url_loop"
    /\ UNCHANGED <<dirExists, gen, input, src, failed, startFs, startDir,
                   exit, msg, prev, runs, probe>>

\* print(f"Wrote icons to {OUT_DIR} (source saved at {src_path})")
UrlPrint ==
    /\ pc = "url_print"
    /\ Exit(0, "wrote")
    /\ UNCHANGED <<fs, dirExists, gen, input, src, idx, written, failed,
                   startFs, startDir, trace, prev, runs, probe>>

\* A write that raises ---------------------------------------------------------
\* The file the statement at pc writes.
Target ==
    CASE pc \in {"proc_touch", "proc_save"} -> "icon512.png"
      [] pc = "proc_loop" -> proc_filename(proc_targets[idx])
      [] pc \in {"file_source", "url_source"} -> "source.png"
      [] pc = "file_loop" -> SPECS[idx].filename
      [] pc = "url_loop" -> url_SPECS[idx].filename

\* write_bytes or Image.save raises OSError (disk full, permission): no script
\* catches it, so the process ends with a traceback.  Either the file could
\* not be opened and is as before, or it was opened, hence truncated, and
\* holds no complete image.
WriteFails ==
    /\ pc \in {"proc_touch", "proc_save", "proc_loop", "file_source",
               "file_loop", "url_source", "url_loop"}
    /\ \E opened \in BOOLEAN :
          fs' = [fs EXCEPT ![Target] = IF opened THEN EmptyFile ELSE @]
    /\ failed' = Target
    /\ Exit(1, "traceback")
    /\ UNCHANGED <<dirExists, gen, input, src, idx, written, startFs, startDir,
                   trace, prev, runs, probe>>

Next ==
    \/ ProcStart \/ ProcBase \/ ProcTouch \/ ProcSave \/ ProcIcon \/ ProcPrint
    \/ FileStart \/ FileArgs \/ FilePath \/ FileOpen \/ FileSource \/ FileIcon
    \/ FilePrint
    \/ UrlStart \/ UrlFetch \/ UrlSource \/ UrlIcon \/ UrlPrint
    \/ WriteFails

Spec == Init /\ [][Next]_vars


(*************************** center_crop_square alone **********************)
\* Every variable of the runs at its initial value, the directory missing.
Quiet ==
    /\ InitRun
    /\ dirExists = FALSE
    /\ fs = [n \in Names |-> Absent]
    /\ startFs = fs
    /\ startDir = FALSE

QuietVars == <<fs, dirExists, gen, pc, input, src, idx, written, failed,
               startFs, startDir, exit, msg, trace, prev, runs>>

InitCrop ==
    /\ Quiet
    /\ \E W \in 1..MaxSide, H \in 1..MaxSide :
          probe = [fn |-> "none", w |-> W, h |-> H, out |-> NoImg]

\* center_crop_square of generate_icons_from_file.py on a W x H image
CropFile ==
    /\ probe.fn = "none"
    /\ probe' = [probe EXCEPT !.fn = "file",
                   !.out = center_crop_square(convert(ImageOpen(probe.w, probe.h)))]
    /\ UNCHANGED QuietVars

\* center_crop_square of generate_icons_from_url.py on a W x H image
CropUrl ==
    /\ probe.fn = "none"
    /\ probe' = [probe EXCEPT !.fn = "url",
                   !.out = url_center_crop_square(convert(ImageOpen(probe.w, probe.h)))]
    /\ UNCHANGED QuietVars

NextCrop == CropFile \/ CropUrl

SpecCrop == InitCrop /\ [][NextCrop]_vars

(*************************** rounded_alpha_mask alone **********************)
\* The coordinates probed in a mask of side S: the bands along the edges that
\* hold the corners, and the centre.
Coords(S) ==
    {c \in 0..(S - 1) : \/ c <= S \div 6 + 1 + ProbeMargin
                        \/ c >= S - 2 - S \div 6 - ProbeMargin
                        \/ c = S \div 2}

\* A square source, as center_crop_square leaves it.
SquareSource == center_crop_square(convert(ImageOpen(2, 1)))

InitMask ==
    /\ Quiet
    /\ \E i \in 1..Len(SPECS) :
         \E x \in Coords(SPECS[i].size), y \in Coords(SPECS[i].size) :
            probe = [fn |-> "none", i |-> i, x |-> x, y |-> y,
                     icon |-> NoImg, v |-> -1]

\* The icon of SPECS[i] as the file-based script builds it, and its alpha at (x, y).
MaskFile ==
    /\ probe.fn = "none"
    /\ LET icon == file_icon(SquareSource, SPECS[probe.i])
       IN  \E v \in AlphaAt(icon, probe.x, probe.y) :
              probe' = [probe EXCEPT !.fn = "file", !.icon = icon, !.v = v]
    /\ UNCHANGED QuietVars

\* The icon of SPECS[i] as the URL-based script builds it, and its alpha at (x, y).
MaskUrl ==
    /\ probe.fn = "none"
    /\ LET icon == url_icon(SquareSource, url_SPECS[probe.i])
       IN  \E v \in AlphaAt(icon, probe.x, probe.y) :
              probe' = [probe EXCEPT !.fn = "url", !.icon = icon, !.v = v]
    /\ UNCHANGED QuietVars

NextMask == MaskFile \/ MaskUrl

SpecMask == InitMask /\ [][NextMask]_vars


(*************************** properties ************************************)
\* The run has completed successfully.
Done == pc = "exited" /\ exit = 0

Present(dir) == {n \in Names : dir[n].exists}

WrittenSet == {written[k] : k \in 1..Len(written)}

\* The output files of a generator, as the specification lists them.
Expected(g) == IF g = "proc" THEN IconNames ELSE IconNames \cup {"source.png"}

\* NNN of iconNNN.png
IconSize(n) ==
    CASE n = "icon512.png" -> 512
      [] n = "icon128.png" -> 128
      [] n = "icon48.png"  -> 48
      [] n = "icon16.png"  -> 16

\* The current run and the one before it had the same input.
SameInput == prev.w = input.w /\ prev.h = input.h

\* C1 (as claimed): after a successful run of any of the three generators the
\* files in icons/ are exactly the four icons, plus source.png for the
\* file-based and URL-based generators, and nothing else, whatever the
\* directory held before.
C1_ExactDirectory == Done => Present(fs) = Expected(gen)

\* C1 (amended): after a successful run the files the run wrote are exactly
\* the four icons, plus source.png for the file-based and URL-based
\* generators; the directory holds these and every file it held before the
\* run, and the files the run does not write are as they were.
C1_WrittenExactly ==
    Done => /\ WrittenSet = Expected(gen)
            /\ Present(fs) = Present(startFs) \cup Expected(gen)
            /\ \A n \in Names \ Expected(gen) : fs[n] = startFs[n]

\* A successful procedural run in a directory where an earlier file-based or
\* URL-based run left source.png.
C1_Witness ==
    /\ Done /\ gen = "proc"
    /\ prev.ok /\ prev.gen \in {"file", "url"}
    /\ fs["source.png"].exists

\* C2: the file-based generator started with a number of arguments other than
\* one, or with a path that does not exist, never gets past its two checks,
\* ends with a non-zero status and a message, and leaves the output directory
\* as it was (no file created or changed, the directory not created).
C2_BadArgsNoOutput ==
    (gen = "file" /\ (input.argc # 2 \/ ~input.exists)) =>
        /\ fs = startFs
        /\ dirExists = startDir
        /\ written = <<>>
        /\ pc \in {"file_args", "file_path", "exited"}
        /\ (pc = "exited" => exit # 0 /\ msg \in {"usage", "notfound"})
        /\ (pc = "exited" /\ input.argc # 2 => msg = "usage")

\* A file-based run given two path arguments, the first an existing image,
\* has exited on the usage error in a directory that held files.
C2_Witness ==
    /\ gen = "file" /\ pc = "exited" /\ exit = 1 /\ msg = "usage"
    /\ input.argc = 3 /\ input.exists
    /\ Present(startFs) # {}

\* C3 (as claimed): in the URL-based generator, a response whose status is
\* not 2xx aborts the run before any file is written.
C3_Non2xxNoWrite ==
    (gen = "url" /\ input.net /\ ~(input.status \in 200..299)) => fs = startFs

\* C3 (amended): in the URL-based generator, a response whose status is a
\* client or server error (400..599) aborts the run before any file is
\* written: the run ends in fetch_image with a non-zero status and the
\* directory's files are as they were.
C3_ErrorStatusNoWrite ==
    (gen = "url" /\ input.net /\ input.status \in 400..599) =>
        /\ fs = startFs
        /\ written = <<>>
        /\ pc \in {"url_fetch", "exited"}
        /\ (pc = "exited" => exit = 1)

\* A URL-based run has aborted on a 404 whose body was a decodable image, in
\* a directory that held files.
C3_Witness ==
    /\ gen = "url" /\ pc = "exited" /\ exit = 1
    /\ input.net /\ input.status = 404 /\ input.decodable
    /\ Present(startFs) # {}

\* C4: center_crop_square of a W x H image (W, H >= 1) is a square of side
\* min(W, H) inside the image; the margins on the short axis are 0, the
\* leading margin on the long axis is floor((long - side) / 2) and the
\* trailing margin differs from it by at most 1.
C4_CenterCrop ==
    probe.fn # "none" =>
        LET W == probe.w
            H == probe.h
            o == probe.out
            side == IF W <= H THEN W ELSE H
            leadX == o.l
            trailX == W - o.l - o.w
            leadY == o.t
            trailY == H - o.t - o.h
        IN  /\ o.w = side /\ o.h = side
            /\ leadX >= 0 /\ trailX >= 0 /\ leadY >= 0 /\ trailY >= 0
            /\ leadX = (W - side) \div 2
            /\ leadY = (H - side) \div 2
            /\ trailX - leadX \in {0, 1}
            /\ trailY - leadY \in {0, 1}
            /\ (W <= H => leadX = 0 /\ trailX = 0)
            /\ (H <= W => leadY = 0 /\ trailY = 0)

\* A landscape image with an odd excess has been cropped: margins 1 and 2.
C4_Witness ==
    /\ probe.fn = "url"
    /\ probe.w - probe.h = 3
    /\ probe.out.l = 1
    /\ probe.w - probe.out.l - probe.out.w = 2

\* C5: after a successful run of any generator, iconNNN.png holds one image
\* of exactly NNN x NNN pixels, whatever the size of the source.
C5_IconDimensions ==
    Done => \A n \in IconNames :
               /\ fs[n].exists
               /\ Len(fs[n].data) = 1
               /\ fs[n].data[1].w = IconSize(n)
               /\ fs[n].data[1].h = IconSize(n)

\* A successful file-based run on a source that is not square.
C5_Witness == Done /\ gen = "file" /\ input.w # input.h

\* C6: when a generator completes a run right after a completed run of the
\* same generator on the same input, every output file is what the first run
\* left.
C6_Idempotent ==
    (Done /\ prev.ok /\ prev.gen = gen /\ SameInput) =>
        \A n \in Expected(gen) : fs[n] = startFs[n]

\* The URL-based generator has completed twice in succession on the same bytes.
C6_Witness ==
    /\ Done /\ gen = "url" /\ prev.ok /\ prev.gen = "url" /\ SameInput
    /\ input.w # input.h

\* The steps of the pipeline of section 4.2, in order.
PipelineSteps ==
    << Step("convert", 0, "RGBA"), Step("crop", 0, ""),
       Step("save", 0, "source.png"),
       Step("resize", 512, ""), Step("mask", 81, ""), Step("save", 512, "icon512.png"),
       Step("resize", 128, ""), Step("mask", 20, ""), Step("save", 128, "icon128.png"),
       Step("resize", 48, ""),  Step("mask", 7, ""),  Step("save", 48, "icon48.png"),
       Step("resize", 16, ""),  Step("mask", 2, ""),  Step("save", 16, "icon16.png") >>

\* C7: a completed URL-based run and a completed file-based run on the same
\* decoded image, one right after the other, performed the same steps in the
\* same order (convert, crop, save source.png, then resize, mask, save for
\* 512, 128, 48, 16) and the second left every file exactly as the first did.
C7_SamePipeline ==
    (Done /\ prev.ok /\ {prev.gen, gen} = {"file", "url"} /\ SameInput) =>
        /\ trace = prev.trace
        /\ trace = PipelineSteps
        /\ \A n \in Names : fs[n] = startFs[n]

\* A URL-based run has completed right after a file-based run on the same
\* portrait image.
C7_Witness ==
    /\ Done /\ gen = "url" /\ prev.ok /\ prev.gen = "file" /\ SameInput
    /\ input.w < input.h


\* The corner radius of each target size, as the specification gives it.
ExpectedRadius(S) ==
    CASE S = 512 -> 81
      [] S = 128 -> 20
      [] S = 48  -> 7
      [] S = 16  -> 2

\* Squared distance from pixel (x, y) to the centre of the nearest corner
\* circle of the rounded rectangle [0, S-1] x [0, S-1] of radius r; 0 on an
\* axis where the pixel is between the corner centres.
CornerDist2(S, r, x, y) ==
    LET dx == IF x < r THEN r - x ELSE IF x > S - 1 - r THEN x - (S - 1 - r) ELSE 0
        dy == IF y < r THEN r - y ELSE IF y > S - 1 - r THEN y - (S - 1 - r) ELSE 0
    IN  dx * dx + dy * dy

\* C8: in the icon of target size S built with its radius r, the alpha of a
\* pixel inside the rounded rectangle [0, S-1] x [0, S-1] of corner radius r
\* is 255 and the alpha of a pixel of a corner area outside the rounded shape
\* (further than r + 1/2 from the corner centre, the rounding of the
\* rasteriser) is 0; the four corner pixels are 0, the centre pixel is 255,
\* every alpha is 0 or 255, and the icon is S x S like its mask.
C8_RoundedMask ==
    probe.fn # "none" =>
        LET S == SPECS[probe.i].size
            r == ExpectedRadius(S)
            x == probe.x
            y == probe.y
            d2 == CornerDist2(S, r, x, y)
        IN  /\ probe.v \in {0, 255}
            /\ probe.icon.w = S /\ probe.icon.h = S
            /\ probe.icon.alpha.size = S
            /\ (d2 <= r * r => probe.v = 255)
            /\ (d2 > r * r + r => probe.v = 0)
            /\ (x \in {0, S - 1} /\ y \in {0, S - 1} => probe.v = 0)
            /\ (x = S \div 2 /\ y = S \div 2 => probe.v = 255)

\* The bottom-right corner pixel of the 16 px icon of the file-based script
\* has been read, and is transparent.
C8_Witness ==
    /\ probe.fn = "file"
    /\ SPECS[probe.i].size = 16
    /\ probe.x = 15 /\ probe.y = 15
    /\ probe.v = 0

\* C9: every icon written by the file-based or URL-based generator carries a
\* mask of radius max(2, floor(0.16 * S)): 81, 20, 7, 2 for 512, 128, 48, 16,
\* at least 2 and at most half the size.
C9_Radius ==
    gen \in {"file", "url"} =>
        \A k \in 1..Len(written) :
            written[k] \in IconNames =>
                LET S == IconSize(written[k])
                    f == fs[written[k]]
                    r == f.data[1].alpha.radius
                IN  /\ Len(f.data) = 1
                    /\ r = ExpectedRadius(S)
                    /\ r = (IF (16 * S) \div 100 >= 2 THEN (16 * S) \div 100 ELSE 2)
                    /\ r >= 2
                    /\ 2 * r <= S

\* The file-based generator has written all four icons.
C9_Witness == gen = "file" /\ Done /\ Len(written) = 5

\* The order in which a generator writes its files.
Order(g) ==
    IF g = "proc"
    THEN <<"icon512.png", "icon128.png", "icon48.png", "icon16.png">>
    ELSE <<"source.png", "icon512.png", "icon128.png", "icon48.png", "icon16.png">>

\* File n holds one complete image of its target size (for source.png, the
\* square of the shorter side of the source).
CompleteAt(n) ==
    /\ fs[n].exists
    /\ Len(fs[n].data) = 1
    /\ LET side == IF n = "source.png"
                   THEN (IF input.w <= input.h THEN input.w ELSE input.h)
                   ELSE IconSize(n)
       IN  fs[n].data[1].w = side /\ fs[n].data[1].h = side

\* The files the run has not written are as they were when it started, but
\* for the one whose write raised, which is as it was or truncated; a raised
\* write ends the run at once with a non-zero status.
NoCleanupNoRetry ==
    /\ \A n \in Names \ WrittenSet :
          \/ fs[n] = startFs[n]
          \/ n = failed /\ fs[n] = EmptyFile
    /\ (failed # "" => pc = "exited" /\ exit # 0)

WrittenIsPrefix ==
    /\ Len(written) <= Len(Order(gen))
    /\ \A k \in 1..Len(written) : written[k] = Order(gen)[k]

\* C10 (as claimed): at every point of a run the files written so far are a
\* prefix of the generator's order, each holds a complete image of its target
\* size, a failed write ends the run and nothing else is touched.
C10_PrefixComplete ==
    gen # "none" =>
        /\ WrittenIsPrefix
        /\ \A n \in WrittenSet : CompleteAt(n)
        /\ NoCleanupNoRetry

\* icon512.png as the procedural generator's write_bytes(b"") leaves it, until
\* base.save has replaced it: empty, for good when that save raises.
TouchedOnly(n) ==
    /\ gen = "proc" /\ n = "icon512.png"
    /\ fs[n] = EmptyFile
    /\ \/ pc = "proc_save"
       \/ pc = "exited" /\ failed = "icon512.png"

\* C10 (amended): as claimed, except that the procedural generator first
\* writes icon512.png as an empty file: from then until its save completes,
\* and for good if that save raises, icon512.png holds no image.
C10_PrefixCompleteButTouch ==
    gen # "none" =>
        /\ WrittenIsPrefix
        /\ \A n \in WrittenSet : CompleteAt(n) \/ TouchedOnly(n)
        /\ NoCleanupNoRetry

\* The file-based generator has aborted on the write of icon48.png in a
\* directory that held an icon48.png, with three files written.
C10_Witness ==
    /\ gen = "file" /\ failed = "icon48.png" /\ pc = "exited"
    /\ written = <<"source.png", "icon512.png", "icon128.png">>
    /\ startFs["icon48.png"].exists
    /\ fs["icon48.png"] = EmptyFile

====
